---- MODULE Spec2Model ----
(***************************************************************************)
(* Model of SonarProcessingNode (brov2_sonar_processing): the three        *)
(* subscription handlers, the timer-driven pre-processing pipeline and the *)
(* mosaic build with its sliding window.                                   *)
(*                                                                         *)
(* Numbers are integers.  Lengths (altitude, res, positions) share one     *)
(* integer unit; the trigonometric constants of the sonar geometry are     *)
(* rationals.  A sample value is a term written as a sequence of integers  *)
(* in postfix form: a raw sample v is <<v>>, the missing-value marker is   *)
(* <<NAN>>, normalisation appends NORM, and the linear blend of slant      *)
(* range correction is a \o b \o <<X, floor_bin, BLEND>>, where X and      *)
(* floor_bin fix the two weights.                                          *)
(***************************************************************************)
EXTENDS Integers, Sequences, FiniteSets, TLC

VARIABLES
    state_initialized,                  \* self.state_initialized
    current_altitude,                   \* self.current_altitude
    current_state,                      \* self.current_state
    current_swath,                      \* self.current_swath: a reference into heap
    heap,                               \* the swath_structure objects, by reference
    buffer_unprocessed_swaths,          \* list of references to swath objects
    buffer_processed_coordinate_array,  \* list of 6 x N coordinate arrays
    processed_frame_counter,            \* self.processed_frame_counter
    files,                              \* the csv files written so far
    pc,                                 \* position of the timer callback
    last_error,                         \* exception raised by the last build, if any
    sonar_seq,                          \* number of sonar messages delivered
    failures,                           \* number of collaborator failures so far
    accepted,                           \* number of sonar frames accepted
    enqueued,                           \* by value: what each queued swath held when accepted
    builds,                             \* log of the completed mosaic builds
    dvl_msg,                            \* the DVL message being handled: <<>> or <<altitude>>
    fn_pc,                              \* stage functions on their own: position
    fn_channel,                         \* ... the channel given
    fn_altitude,                        \* ... the altitude given
    fn_once,                            \* ... the channel after one blind zone removal
    fn_twice,                           \* ... and after a second one
    fn_bins                             \* ... the bins of slant range correction

vars == <<state_initialized, current_altitude, current_state, current_swath, heap,
          buffer_unprocessed_swaths, buffer_processed_coordinate_array,
          processed_frame_counter, files, pc, last_error, sonar_seq, failures,
          accepted, enqueued, builds, dvl_msg,
          fn_pc, fn_channel, fn_altitude, fn_once, fn_twice, fn_bins>>

\* The variables of the stage functions run on their own.
fn_vars == <<fn_pc, fn_channel, fn_altitude, fn_once, fn_twice, fn_bins>>

\* The variables of the node and of its messages.
pipeline_vars == <<state_initialized, current_altitude, current_state, current_swath,
                   heap, buffer_unprocessed_swaths, buffer_processed_coordinate_array,
                   processed_frame_counter, files, pc, last_error, sonar_seq, failures,
                   accepted, enqueued, builds, dvl_msg>>

\* The state of the node itself (no environment counter, no history).
node_vars == <<state_initialized, current_altitude, current_state, current_swath, heap,
               buffer_unprocessed_swaths, buffer_processed_coordinate_array,
               processed_frame_counter, files, pc, last_error>>

-----------------------------------------------------------------------------
(* Bounds of the model *)

MaxFrames == 152
MaxQueue == 2
EnvWindow == 2
MaxFailures == 1
SwathLen == 2

(* Policy constants of the pipeline *)

MosaicPeriod == 100
EvictCount == 50

(* Sonar geometry (side_scan_data): sin(theta + alpha/2) = SinNum / SinDen, *)
(* tan(theta + alpha/2) - tan(theta - alpha/2) = ResTemp.                   *)

Res == 2
SinNum == 4
SinDen == 5
ResTemp == 4
NSamples == 2

(* Tags of the sample terms *)

NAN == -1
NORM == -2
BLEND == -3

-----------------------------------------------------------------------------
(* Inputs *)

\* An altitude reading of the DVL; -1 is the invalid reading.
AltReadings == {-1, 0, 3}

\* Odometry messages: position and orientation quaternion <<w, x, y, z>>.
PoseUpdates == { [x |-> 1, y |-> 0, q |-> <<1, 0, 0, 0>>],
                 [x |-> 2, y |-> 1, q |-> <<0, 0, 0, 1>>] }

\* Odometry(): the default-constructed message.
DefaultOdometry == [x |-> 0, y |-> 0, q |-> <<1, 0, 0, 0>>]

\* The n-th sonar message: two channels of SwathLen one-octet byte values.
SonarMsg(n) ==
    [data_zero |-> [j \in 1..SwathLen |-> <<(n + j) % 256>>],
     data_one  |-> [j \in 1..SwathLen |-> <<(255 - n - j) % 256>>]]

-----------------------------------------------------------------------------
(* Pure helpers *)

Min(a, b) == IF a <= b THEN a ELSE b
Max(a, b) == IF a >= b THEN a ELSE b

RECURSIVE from_bytes_big(_)
from_bytes_big(bs) ==
    IF bs = <<>> THEN 0
    ELSE 256 * from_bytes_big(SubSeq(bs, 1, Len(bs) - 1)) + bs[Len(bs)]

\* floor(sqrt(n)) and ceil(sqrt(n)) of a non-negative integer
FloorSqrt(n) == CHOOSE r \in 0..n : r * r <= n /\ (r + 1) * (r + 1) > n
CeilSqrt(n) == IF FloorSqrt(n) * FloorSqrt(n) = n THEN FloorSqrt(n) ELSE FloorSqrt(n) + 1

Nans(n) == [j \in 1..n |-> <<NAN>>]

\* csr.cubic_spline_regression.swath_normalization: every sample flattened
\* against the fitted trend; the length of the channel is kept.
swath_normalization(swath) == [j \in 1..Len(swath) |-> Append(swath[j], NORM)]

\* index_FBR = int(floor_divide(altitude / sin(theta + alpha/2), res))
index_FBR(altitude) == (altitude * SinDen) \div (SinNum * Res)

SliceAssignNans_Inserts(swath, i) == Nans(Max(i, 0)) \o swath

\* swath[:i] = [nan] * i on a Python list: the slice [0, stop) is replaced by
\* max(i, 0) markers, where stop is i clipped to the list (counted from the
\* end when i is negative).
SliceAssignNans(swath, i) ==
    LET stop == IF i >= 0 THEN Min(i, Len(swath)) ELSE Max(Len(swath) + i, 0)
    IN  Nans(Max(i, 0)) \o SubSeq(swath, stop + 1, Len(swath))

\* blind_zone_removal reads self.current_altitude, passed here as altitude.
blind_zone_removal(swath, altitude) == SliceAssignNans(swath, index_FBR(altitude))

\* exact_bin = sqrt((res*sample)^2 + altitude^2) / res, by its integer parts
ExactBinSq(sample, altitude) == (Res * sample) * (Res * sample) + altitude * altitude
floor_bin_Unclamped(sample, altitude, n) ==
    FloorSqrt(ExactBinSq(sample, altitude)) \div Res

floor_bin(sample, altitude, n) ==
    Min(FloorSqrt(ExactBinSq(sample, altitude)) \div Res, n - 1)
ceiling_bin(sample, altitude, n) ==
    Min((CeilSqrt(ExactBinSq(sample, altitude)) + Res - 1) \div Res, n - 1)

\* weight_2 * swath[floor_bin] + weight_1 * swath[ceiling_bin]
Blend(swath, sample, altitude, n) ==
    swath[floor_bin(sample, altitude, n) + 1]
        \o swath[ceiling_bin(sample, altitude, n) + 1]
        \o <<ExactBinSq(sample, altitude), floor_bin(sample, altitude, n), BLEND>>

\* (the loop of the left channel one sample short)
slant_range_correction_ShortLeft(sw) ==
    LET n == Len(sw.swath_right)
    IN  [sw EXCEPT
            !.swath_right = [j \in 1..n |-> Blend(sw.swath_right, j - 1, sw.altitude, n)],
            !.swath_left  = [j \in 1..(n - 1) |->
                                Blend(sw.swath_left, j - 1, sw.altitude, n)]]

slant_range_correction(sw) ==
    LET n == Len(sw.swath_right)
    IN  [sw EXCEPT
            !.swath_right = [j \in 1..n |-> Blend(sw.swath_right, j - 1, sw.altitude, n)],
            !.swath_left  = [j \in 1..n |-> Blend(sw.swath_left, j - 1, sw.altitude, n)]]

\* pitch_yaw_from_quaternion, by the sines and cosines pose_correction uses.
\* sin(pitch) is the clamped t2; for the orientations of PoseUpdates
\* t3^2 + t4^2 = 1, so that sin(yaw) = t3 and cos(yaw) = t4.
Clamp(v) == IF v > 1 THEN 1 ELSE IF v < -1 THEN -1 ELSE v
SinPitch(q) == Clamp(2 * (q[1] * q[3] - q[4] * q[2]))
SinYaw(q) == 2 * (q[1] * q[4] + q[2] * q[3])
CosYaw(q) == 1 - 2 * (q[3] * q[3] + q[4] * q[4])

pose_correction(sw) ==
    LET q == sw.state.q
        altitude == sw.altitude
        res == (ResTemp * altitude) \div NSamples
        n == Len(sw.swath_right)
        off_x == SinPitch(q) * CosYaw(q) * altitude
        off_y == SinPitch(q) * SinYaw(q) * altitude
    IN  [x_right |-> [j \in 1..n |-> -(sw.state.x + SinYaw(q) * (j - 1) * res + off_x)],
         x_left  |-> [j \in 1..n |-> -(sw.state.x - SinYaw(q) * (j - 1) * res + off_x)],
         y_right |-> [j \in 1..n |-> -sw.state.y + CosYaw(q) * (j - 1) * res - off_y],
         y_left  |-> [j \in 1..n |-> -sw.state.y - CosYaw(q) * (j - 1) * res - off_y],
         intensity_right |-> sw.swath_right,
         intensity_left  |-> sw.swath_left]

\* Lines 170-182: the stages applied to the swath object at the head of the
\* queue; blind zone removal is given the node's current altitude.
Conditioned(sw, cur_altitude) ==
    slant_range_correction(
        [sw EXCEPT
            !.swath_right = blind_zone_removal(swath_normalization(sw.swath_right),
                                               cur_altitude),
            !.swath_left  = blind_zone_removal(swath_normalization(sw.swath_left),
                                               cur_altitude)])

-----------------------------------------------------------------------------
(* The mosaic trigger and the eviction *)

MosaicTrigger_AtZero(buffer_size) == buffer_size % MosaicPeriod = 0

MosaicTrigger_EveryEvictCount(buffer_size) ==
    buffer_size % EvictCount = 0 /\ buffer_size # 0

MosaicTrigger(buffer_size) == buffer_size % MosaicPeriod = 0 /\ buffer_size # 0

Evicted_OffByOne(buffer) == SubSeq(buffer, EvictCount, Len(buffer))

Evicted_KeepsOldest(buffer) == SubSeq(buffer, 1, Len(buffer) - EvictCount)

Evicted_Clears(buffer) == <<>>

Evicted(buffer) == SubSeq(buffer, EvictCount + 1, Len(buffer))

-----------------------------------------------------------------------------
(* construct_frame: the scatter, as the cells of the buffered arrays it reads *)

Cols(coordinate_array) == Len(coordinate_array.x_right)

\* coordinate_array[a:b].flatten(): the rows one after the other
RowCells(k, rows, n) ==
    [j \in 1..(Len(rows) * n) |->
        [frame |-> k, row |-> rows[((j - 1) \div n) + 1], col |-> ((j - 1) % n) + 1]]

RECURSIVE ExtendAll(_, _, _)
ExtendAll(buffer, rows, k) ==
    IF k = 0 THEN <<>>
    ELSE ExtendAll(buffer, rows, k - 1) \o RowCells(k, rows, Cols(buffer[k]))

\* u.extend(coordinate_array[0:2].flatten())
u_cells(buffer) == ExtendAll(buffer, <<"x_right", "x_left">>, Len(buffer))
\* v.extend(coordinate_array[2:4].flatten())
v_cells(buffer) == ExtendAll(buffer, <<"y_right", "y_left">>, Len(buffer))
\* intensity_values.extend(coordinate_array[5].flatten()), then coordinate_array[4]
intensity_cells(buffer) ==
    ExtendAll(buffer, <<"intensity_left", "intensity_right">>, Len(buffer))

CellValue(buffer, c) == buffer[c.frame][c.row][c.col]

\* The channel a row of the coordinate array belongs to
Channel(row) == IF row \in {"x_right", "y_right", "intensity_right"} THEN "right" ELSE "left"

FileNames_NoCounter(counter) == << <<"raw", 0>>, <<"knn", 0>>, <<"knn_filtered", 0>> >>

\* The three files of store_processed_frames, in the order they are written
FileNames(counter) == << <<"raw", counter>>, <<"knn", counter>>, <<"knn_filtered", counter>> >>
Written(counter, n) == {FileNames(counter)[j] : j \in 1..n}

\* What may raise inside construct_frame: griddata, knn, and each to_csv
\* (after `written` of the three files are on disk).
Raises == { [error |-> "interpolation", written |-> 0],
            [error |-> "smoothing", written |-> 0],
            [error |-> "persistence", written |-> 0],
            [error |-> "persistence", written |-> 1],
            [error |-> "persistence", written |-> 2] }

-----------------------------------------------------------------------------
(* Initial state: SonarProcessingNode.__init__ *)

SwathRef == 1

Init ==
    /\ state_initialized = FALSE
    /\ current_altitude = 0
    /\ current_state = DefaultOdometry
    /\ current_swath = SwathRef
    /\ heap = [r \in {SwathRef} |->
                 [swath_right |-> <<>>, swath_left |-> <<>>,
                  state |-> DefaultOdometry, altitude |-> 0]]
    /\ buffer_unprocessed_swaths = <<>>
    /\ buffer_processed_coordinate_array = <<>>
    /\ processed_frame_counter = 1
    /\ files = {}
    /\ pc = "idle"
    /\ last_error = "none"
    /\ sonar_seq = 0
    /\ failures = 0
    /\ accepted = 0
    /\ enqueued = <<>>
    /\ builds = <<>>
    /\ dvl_msg = <<>>
    /\ fn_pc = "off"
    /\ fn_channel = <<>>
    /\ fn_altitude = 0
    /\ fn_once = <<>>
    /\ fn_twice = <<>>
    /\ fn_bins = <<>>

-----------------------------------------------------------------------------
(* Subscription handlers.  The executor runs one callback at a time, so a   *)
(* handler runs only between two runs of the timer callback.                *)

sonar_accepts_Ungated == TRUE

\* Line 52: the gate of sonar_sub
sonar_accepts == state_initialized

\* How many swaths may wait: bursts of MaxQueue during the first EnvWindow
\* messages, one at a time afterwards.
QueueCap == IF sonar_seq < EnvWindow THEN MaxQueue ELSE 1

sonar_sub ==
    /\ pc = "idle"
    /\ UNCHANGED <<dvl_msg, fn_vars>>
    /\ sonar_seq < MaxFrames
    /\ Len(buffer_unprocessed_swaths) < QueueCap
    /\ sonar_seq' = sonar_seq + 1
    /\ IF ~sonar_accepts
       THEN UNCHANGED <<node_vars, failures, accepted, enqueued, builds>>
       ELSE LET msg == SonarMsg(sonar_seq)
                sw == [swath_right |-> [j \in 1..Len(msg.data_zero) |->
                                           <<from_bytes_big(msg.data_zero[j])>>],
                       swath_left  |-> [j \in 1..Len(msg.data_one) |->
                                           <<from_bytes_big(msg.data_one[j])>>],
                       state |-> current_state,
                       altitude |-> current_altitude]
            IN  /\ heap' = [heap EXCEPT ![current_swath] = sw]
                /\ buffer_unprocessed_swaths' =
                       Append(buffer_unprocessed_swaths, current_swath)
                /\ accepted' = accepted + 1
                /\ enqueued' = Append(enqueued, sw)
                /\ UNCHANGED <<state_initialized, current_altitude, current_state,
                               current_swath, buffer_processed_coordinate_array,
                               processed_frame_counter, files, pc, last_error,
                               failures, builds>>

\* A DVL message reaches the subscription of line 29; its callback runs next.
dvl_arrives ==
    /\ pc = "idle"
    /\ sonar_seq < EnvWindow
    /\ \E altitude \in AltReadings : dvl_msg' = <<altitude>>
    /\ pc' = "dvl"
    /\ UNCHANGED <<state_initialized, current_altitude, current_state, current_swath,
                   heap, buffer_unprocessed_swaths, buffer_processed_coordinate_array,
                   processed_frame_counter, files, last_error, sonar_seq,
                   failures, accepted, enqueued, builds, fn_vars>>

dvl_accepts_Any(altitude) == TRUE

\* Line 68: altitude values of -1 are invalid
dvl_accepts(altitude) == altitude # -1

dvl_sub ==
    /\ pc = "dvl"
    /\ current_altitude' = IF dvl_accepts(dvl_msg[1]) THEN dvl_msg[1] ELSE current_altitude
    /\ dvl_msg' = <<>>
    /\ pc' = "idle"
    /\ UNCHANGED <<state_initialized, current_state, current_swath, heap,
                   buffer_unprocessed_swaths, buffer_processed_coordinate_array,
                   processed_frame_counter, files, last_error, sonar_seq,
                   failures, accepted, enqueued, builds, fn_vars>>

state_sub ==
    /\ pc = "idle"
    /\ UNCHANGED <<dvl_msg, fn_vars>>
    /\ sonar_seq < EnvWindow
    /\ \E state_msg \in PoseUpdates : current_state' = state_msg
    /\ state_initialized' = TRUE
    /\ UNCHANGED <<current_altitude, current_swath, heap,
                   buffer_unprocessed_swaths, buffer_processed_coordinate_array,
                   processed_frame_counter, files, pc, last_error, sonar_seq,
                   failures, accepted, enqueued, builds>>

-----------------------------------------------------------------------------
(* The timer callback run_full_pre_processing_pipeline, step by step *)

\* The timer of line 45 fires and the callback is entered.
timer_fires ==
    /\ pc = "idle"
    /\ UNCHANGED <<dvl_msg, fn_vars>>
    /\ pc' = "tick"
    /\ last_error' = "none"
    /\ UNCHANGED <<state_initialized, current_altitude, current_state, current_swath,
                   heap, buffer_unprocessed_swaths, buffer_processed_coordinate_array,
                   processed_frame_counter, files, sonar_seq, failures, accepted,
                   enqueued, builds>>

\* (the early return taken one swath too soon)
run_full_pre_processing_pipeline_ReturnsAtOne ==
    /\ pc = "tick"
    /\ UNCHANGED <<dvl_msg, fn_vars>>
    /\ pc' = IF Len(buffer_unprocessed_swaths) <= 1 THEN "idle"
             ELSE IF MosaicTrigger(Len(buffer_processed_coordinate_array))
                  THEN "construct"
                  ELSE "process"
    /\ UNCHANGED <<state_initialized, current_altitude, current_state, current_swath,
                   heap, buffer_unprocessed_swaths, buffer_processed_coordinate_array,
                   processed_frame_counter, files, last_error, sonar_seq, failures,
                   accepted, enqueued, builds>>

\* Lines 156-161: return on an empty queue, else build first when triggered.
run_full_pre_processing_pipeline ==
    /\ pc = "tick"
    /\ UNCHANGED <<dvl_msg, fn_vars>>
    /\ pc' = IF Len(buffer_unprocessed_swaths) = 0 THEN "idle"
             ELSE IF MosaicTrigger(Len(buffer_processed_coordinate_array))
                  THEN "construct"
                  ELSE "process"
    /\ UNCHANGED <<state_initialized, current_altitude, current_state, current_swath,
                   heap, buffer_unprocessed_swaths, buffer_processed_coordinate_array,
                   processed_frame_counter, files, last_error, sonar_seq, failures,
                   accepted, enqueued, builds>>

\* Lines 136-152 and 212-224: the build, with store_processed_frames at its
\* end.  Nothing catches an exception: it leaves the callback at once, and
\* the caller of the executor either goes on spinning or ends the node.
construct_frame ==
    /\ pc = "construct"
    /\ UNCHANGED <<dvl_msg, fn_vars>>
    /\ \/ /\ files' = files \cup Written(processed_frame_counter, 3)
          /\ processed_frame_counter' = processed_frame_counter + 1
          /\ pc' = "evict"
          /\ UNCHANGED <<last_error, failures>>
       \/ /\ failures < MaxFailures
          /\ \E r \in Raises :
                /\ files' = files \cup Written(processed_frame_counter, r.written)
                /\ last_error' = r.error
          /\ failures' = failures + 1
          /\ pc' \in {"idle", "crashed"}
          /\ UNCHANGED processed_frame_counter
    /\ UNCHANGED <<state_initialized, current_altitude, current_state, current_swath,
                   heap, buffer_unprocessed_swaths, buffer_processed_coordinate_array,
                   sonar_seq, accepted, enqueued, builds>>

\* Line 163: the window keeps what follows its first EvictCount arrays.
evict_window ==
    /\ pc = "evict"
    /\ UNCHANGED <<dvl_msg, fn_vars>>
    /\ buffer_processed_coordinate_array' = Evicted(buffer_processed_coordinate_array)
    /\ builds' = Append(builds,
                        [at |-> Len(buffer_processed_coordinate_array),
                         after |-> Len(buffer_processed_coordinate_array')])
    /\ pc' = "process"
    /\ UNCHANGED <<state_initialized, current_altitude, current_state, current_swath,
                   heap, buffer_unprocessed_swaths, processed_frame_counter, files,
                   last_error, sonar_seq, failures, accepted, enqueued>>

\* Lines 166-186: the swath object at the head of the queue is conditioned
\* in place, projected, appended to the window and popped.
process_swath ==
    /\ pc = "process"
    /\ UNCHANGED <<dvl_msg, fn_vars>>
    /\ LET ref == buffer_unprocessed_swaths[1]
           sw == Conditioned(heap[ref], current_altitude)
       IN  /\ heap' = [heap EXCEPT ![ref] = sw]
           /\ buffer_processed_coordinate_array' =
                  Append(buffer_processed_coordinate_array, pose_correction(sw))
    /\ buffer_unprocessed_swaths' = Tail(buffer_unprocessed_swaths)
    /\ enqueued' = Tail(enqueued)
    /\ pc' = "idle"
    /\ UNCHANGED <<state_initialized, current_altitude, current_state, current_swath,
                   processed_frame_counter, files, last_error, sonar_seq, failures,
                   accepted, builds>>

Next ==
    \/ sonar_sub
    \/ dvl_arrives
    \/ dvl_sub
    \/ state_sub
    \/ timer_fires
    \/ run_full_pre_processing_pipeline
    \/ construct_frame
    \/ evict_window
    \/ process_swath

Spec == Init /\ [][Next]_vars

\* Lines 170-187 seen as control flow only: the tail of the timer callback
\* returns.  Under [Next]_vars the only step from "process" to "idle" is
\* process_swath, which is enabled whenever pc = "process".
process_swath_returns == pc = "process" /\ pc' = "idle"

\* The timer of line 45 is periodic, so it is served again and again while
\* the node is spinning (strongly fair: DVL callbacks may be served in
\* between without end), and a callback that has started runs to its end
\* (the external calls of a build return or raise).
SpecFair ==
    /\ Init
    /\ [][Next]_vars
    /\ SF_vars(timer_fires)
    /\ WF_vars(dvl_sub)
    /\ WF_vars(run_full_pre_processing_pipeline)
    /\ WF_vars(construct_frame)
    /\ WF_vars(evict_window)
    /\ WF_pc(process_swath_returns)

-----------------------------------------------------------------------------
(* The stage functions on their own: blind_zone_removal applied once and    *)
(* again with the altitude unchanged, and the bins of                       *)
(* slant_range_correction, for channels and altitudes drawn from small sets *)

MaxChannelLen == 3
MaxPureAltitude == 8

PureSamples == { <<7>>, <<9>> }
PureChannels == UNION { [1..n -> PureSamples] : n \in 0..MaxChannelLen }
PureAltitudes == (-MaxPureAltitude)..MaxPureAltitude

InitPure ==
    /\ Init!1 /\ Init!2 /\ Init!3 /\ Init!4 /\ Init!5 /\ Init!6 /\ Init!7 /\ Init!8
    /\ Init!9 /\ Init!10 /\ Init!11 /\ Init!12 /\ Init!13 /\ Init!14 /\ Init!15
    /\ Init!16 /\ Init!17
    /\ fn_pc = "input"
    /\ fn_channel \in PureChannels
    /\ fn_altitude \in PureAltitudes
    /\ fn_once = <<>>
    /\ fn_twice = <<>>
    /\ fn_bins = <<>>

\* blind_zone_removal(swath) with self.current_altitude = fn_altitude
apply_blind_zone ==
    /\ fn_pc = "input"
    /\ fn_once' = blind_zone_removal(fn_channel, fn_altitude)
    /\ fn_pc' = "once"
    /\ UNCHANGED <<pipeline_vars, fn_channel, fn_altitude, fn_twice, fn_bins>>

\* ... and again on its own result
reapply_blind_zone ==
    /\ fn_pc = "once"
    /\ fn_twice' = blind_zone_removal(fn_once, fn_altitude)
    /\ fn_pc' = "twice"
    /\ UNCHANGED <<pipeline_vars, fn_channel, fn_altitude, fn_once, fn_bins>>

\* Lines 95-98 for a swath of Len(fn_channel) samples: per sample the square
\* of exact_bin * res, floor_bin and ceiling_bin
slant_bins ==
    /\ fn_pc = "twice"
    /\ fn_bins' = [j \in 1..Len(fn_channel) |->
                      [exact_sq |-> ExactBinSq(j - 1, fn_altitude),
                       floor |-> floor_bin(j - 1, fn_altitude, Len(fn_channel)),
                       ceiling |-> ceiling_bin(j - 1, fn_altitude, Len(fn_channel))]]
    /\ fn_pc' = "binned"
    /\ UNCHANGED <<pipeline_vars, fn_channel, fn_altitude, fn_once, fn_twice>>

NextPure ==
    \/ apply_blind_zone
    \/ reapply_blind_zone
    \/ slant_bins

SpecPure == InitPure /\ [][NextPure]_vars

-----------------------------------------------------------------------------
(* Properties *)

BufferLen == Len(buffer_processed_coordinate_array)
QueueLen == Len(buffer_unprocessed_swaths)

\* C1: a queued Swath keeps the samples, altitude and pose it was accepted
\* with until it is dequeued, and the queued Swaths are pairwise distinct
\* objects.
C1_QueuedSwathsKeepTheirData ==
    /\ \A i \in 1..QueueLen : heap[buffer_unprocessed_swaths[i]] = enqueued[i]
    /\ \A i, j \in 1..QueueLen :
          i # j => buffer_unprocessed_swaths[i] # buffer_unprocessed_swaths[j]

\* C2 (as amended): a tick starts the mosaic build exactly when the queue is
\* non-empty and the window length is a positive multiple of 100; the build
\* starts straight from the tick's entry, it changes neither the window nor
\* the queue, and a swath is processed in a triggered tick only after the
\* eviction that follows the build.
C2_BuildIffTriggeredAndQueued ==
    [][ /\ pc = "tick" =>
             (pc' = "construct" <=>
                 (QueueLen > 0 /\ BufferLen % 100 = 0 /\ BufferLen > 0))
        /\ pc' = "construct" => pc = "tick"
        /\ pc = "construct" =>
             /\ buffer_processed_coordinate_array' = buffer_processed_coordinate_array
             /\ buffer_unprocessed_swaths' = buffer_unprocessed_swaths
        /\ pc' = "process" =>
             \/ pc = "evict"
             \/ pc = "tick" /\ ~(BufferLen % 100 = 0 /\ BufferLen > 0)
      ]_vars

\* C2 (as stated): a tick starts the mosaic build exactly when the window
\* length is a positive multiple of 100, whether or not the queue is empty.
C2_BuildWheneverTriggered ==
    [][ pc = "tick" =>
          (pc' = "construct" <=> (BufferLen % 100 = 0 /\ BufferLen > 0)) ]_vars

C2_Witness == pc = "construct" /\ BufferLen = 100 /\ QueueLen > 0

\* C3: in every step the window length stays, or grows by exactly one as a
\* swath is processed (and popped), or shrinks by exactly 50 in the eviction
\* of a build, which starts from a length that is a positive multiple of 100.
C3_LengthChangesOnlyTwoWays ==
    [][ LET d == Len(buffer_processed_coordinate_array') - BufferLen
        IN  \/ d = 0 /\ pc # "process" /\ pc # "evict"
            \/ /\ d = 1
               /\ pc = "process"
               /\ buffer_unprocessed_swaths' = Tail(buffer_unprocessed_swaths)
            \/ /\ d = -50
               /\ pc = "evict"
               /\ BufferLen % 100 = 0
               /\ BufferLen > 0
      ]_vars

C3_Witness == pc = "process" /\ BufferLen = 50 /\ Len(builds) = 1

FrameOf(sw) == pose_correction(Conditioned(sw, current_altitude))

\* C5: the array appended by a tick is the one computed from the oldest
\* accepted swath still waiting, as it was accepted (conditioned exactly
\* once).
C5_FramesFollowArrivalOrder ==
    [][ pc = "process" =>
          buffer_processed_coordinate_array' =
              Append(buffer_processed_coordinate_array, FrameOf(Head(enqueued))) ]_vars

\* C6: in the scatter of a build the u, v and intensity sequences have the
\* same length, and the i-th intensity is read from the same array, the same
\* channel and the same sample as the i-th u and the i-th v.
C6_ScatterIntensityMatchesPoint ==
    pc = "construct" =>
        LET u == u_cells(buffer_processed_coordinate_array)
            v == v_cells(buffer_processed_coordinate_array)
            w == intensity_cells(buffer_processed_coordinate_array)
        IN  /\ Len(u) = Len(v)
            /\ Len(u) = Len(w)
            /\ \A i \in 1..Len(u) :
                  /\ w[i].frame = u[i].frame /\ w[i].frame = v[i].frame
                  /\ w[i].col = u[i].col /\ w[i].col = v[i].col
                  /\ Channel(w[i].row) = Channel(u[i].row)
                  /\ Channel(w[i].row) = Channel(v[i].row)

\* C7: a build in which the smoothing collaborator fails still writes its raw
\* scatter table and goes on to the eviction.
C7_SmoothingFailureIsSkipped ==
    [][ (pc = "construct" /\ last_error' = "smoothing") =>
          /\ <<"raw", processed_frame_counter>> \in files'
          /\ pc' = "evict" ]_vars

\* C8: a build whose persistence fails goes on to the eviction, and the tick
\* then processes a swath.
C8_PersistenceFailureIsNotFatal ==
    [][ (pc = "construct" /\ last_error' = "persistence") => pc' = "evict" ]_vars

\* C9: while no pose update has been received the queue is empty and a sonar
\* frame changes nothing of the node; afterwards every sonar frame appends
\* exactly one swath at the tail of the queue.
C9_GatedIngestion ==
    /\ [](~state_initialized => buffer_unprocessed_swaths = <<>>)
    /\ [][ sonar_seq' # sonar_seq =>
             IF ~state_initialized
             THEN UNCHANGED node_vars
             ELSE /\ Len(buffer_unprocessed_swaths') = QueueLen + 1
                  /\ SubSeq(buffer_unprocessed_swaths', 1, QueueLen)
                         = buffer_unprocessed_swaths
                  /\ heap'[buffer_unprocessed_swaths'[QueueLen + 1]].swath_right =
                         [j \in 1..SwathLen |->
                             <<from_bytes_big(SonarMsg(sonar_seq).data_zero[j])>>]
                  /\ UNCHANGED <<state_initialized, current_altitude, current_state,
                                 buffer_processed_coordinate_array>>
         ]_vars

C9_Witness ==
    /\ state_initialized
    /\ accepted = 1
    /\ sonar_seq = 2
    /\ QueueLen = 1

\* C10: the swath a tick dequeues carries an altitude greater than zero.
C10_DequeuedAltitudePositive ==
    pc = "process" => heap[buffer_unprocessed_swaths[1]].altitude > 0

\* C11: handling an altitude reading of -1 changes nothing of the node; any
\* other reading becomes the retained altitude and changes nothing else; and
\* no other step changes the retained altitude.
C11_SentinelKeepsAltitude ==
    [][ /\ pc = "dvl" =>
             /\ current_altitude' =
                    IF dvl_msg[1] = -1 THEN current_altitude ELSE dvl_msg[1]
             /\ UNCHANGED <<state_initialized, current_state, current_swath, heap,
                            buffer_unprocessed_swaths,
                            buffer_processed_coordinate_array,
                            processed_frame_counter, files, last_error>>
        /\ pc # "dvl" => current_altitude' = current_altitude
      ]_vars

C11_Witness ==
    /\ pc = "dvl"
    /\ dvl_msg = <<-1>>
    /\ current_altitude = 3
    /\ accepted = 1

\* C12: blind zone removal keeps the length N of the channel, puts the
\* missing-value marker at the samples with index below min(max(i, 0), N),
\* where i = floor(altitude / sin(theta + alpha/2) / res), and leaves every
\* other sample as it was.
C12_BlindZoneIndexClamped ==
    fn_pc = "once" =>
        LET N == Len(fn_channel)
            i == (fn_altitude * SinDen) \div (SinNum * Res)
            k == Min(Max(i, 0), N)
        IN  /\ Len(fn_once) = N
            /\ \A j \in 1..N :
                  fn_once[j] = IF j <= k THEN <<NAN>> ELSE fn_channel[j]

\* C15: blind zone removal applied again, with the altitude unchanged, to its
\* own result returns that result.
C15_BlindZoneIdempotent ==
    fn_pc \in {"twice", "binned"} => fn_twice = fn_once

C15_Witness ==
    /\ fn_pc = "twice"
    /\ fn_once # fn_channel
    /\ \E j \in 1..Len(fn_once) : fn_once[j] = <<NAN>>
    /\ \E j \in 1..Len(fn_once) : fn_once[j] # <<NAN>>

\* C16: for an altitude >= 0 and N samples, every sample index has
\* 0 <= floor_bin <= ceiling_bin <= N - 1, floor_bin does not decrease with
\* the index, and at index 0 exact_bin * res is the altitude.
C16_SlantBinsMonotone ==
    (fn_pc = "binned" /\ fn_altitude >= 0) =>
        LET N == Len(fn_channel)
        IN  /\ Len(fn_bins) = N
            /\ \A j \in 1..N :
                  /\ 0 <= fn_bins[j].floor
                  /\ fn_bins[j].floor <= fn_bins[j].ceiling
                  /\ fn_bins[j].ceiling <= N - 1
            /\ \A j \in 1..(N - 1) : fn_bins[j].floor <= fn_bins[j + 1].floor
            /\ N >= 1 => fn_bins[1].exact_sq = fn_altitude * fn_altitude

C16_Witness ==
    /\ fn_pc = "binned"
    /\ fn_altitude = 3
    /\ Len(fn_channel) = 3
    /\ fn_bins[1].floor = 1
    /\ fn_bins[1].ceiling = 2
    /\ fn_bins[3].floor = 2

\* C13: the eviction of a build leaves, in the same order, the 50 arrays
\* appended last to the window the build started with.
C13_EvictionKeepsNewest50 ==
    [][ pc = "evict" =>
          /\ Len(buffer_processed_coordinate_array') = 50
          /\ \A k \in 1..50 :
                buffer_processed_coordinate_array'[k] =
                    buffer_processed_coordinate_array[BufferLen - 50 + k] ]_vars

C13_Witness == pc = "process" /\ BufferLen = 50 /\ Len(builds) = 2

\* C14: for a swath whose two raw channels have the same length, the two
\* channels have the same length after normalization, after blind zone
\* removal and after slant range correction, and every row of the array
\* appended for it has that many columns.
C14_ChannelCountsStayEqual ==
    [][ (pc = "process"
           /\ Len(heap[buffer_unprocessed_swaths[1]].swath_right)
                = Len(heap[buffer_unprocessed_swaths[1]].swath_left)) =>
          LET sw == heap[buffer_unprocessed_swaths[1]]
              nr == swath_normalization(sw.swath_right)
              nl == swath_normalization(sw.swath_left)
              br == blind_zone_removal(nr, current_altitude)
              bl == blind_zone_removal(nl, current_altitude)
              done == heap'[buffer_unprocessed_swaths[1]]
              frame == buffer_processed_coordinate_array'[BufferLen + 1]
          IN  /\ Len(nr) = Len(nl)
              /\ Len(br) = Len(bl)
              /\ Len(done.swath_right) = Len(done.swath_left)
              /\ \A row \in DOMAIN frame : Len(frame[row]) = Len(done.swath_right)
      ]_vars

C14_Witness ==
    /\ pc = "idle"
    /\ BufferLen = 1
    /\ current_altitude = 3
    /\ \A row \in DOMAIN buffer_processed_coordinate_array[1] :
          Len(buffer_processed_coordinate_array[1][row]) = SwathLen
    /\ buffer_processed_coordinate_array[1].intensity_right
          # buffer_processed_coordinate_array[1].intensity_left

\* C17: the frame counter starts at 1; a step changes it only by completing
\* a build, which writes the three tables under the counter's value and adds
\* exactly one to it; so the counter is one more than the number of
\* completed builds.
C17_CounterCountsCompletedBuilds ==
    /\ processed_frame_counter = 1
    /\ [](processed_frame_counter = Len(builds) + (IF pc = "evict" THEN 2 ELSE 1))
    /\ [][ IF pc = "construct" /\ pc' = "evict"
           THEN /\ processed_frame_counter' = processed_frame_counter + 1
                /\ { <<"raw", processed_frame_counter>>,
                     <<"knn", processed_frame_counter>>,
                     <<"knn_filtered", processed_frame_counter>> } \subseteq files'
           ELSE processed_frame_counter' = processed_frame_counter
         ]_vars

C17_Witness ==
    /\ processed_frame_counter = 3
    /\ pc = "evict"
    /\ <<"raw", 1>> \in files
    /\ <<"raw", 2>> \in files

\* C18: blind zone removal of a processed swath uses the altitude captured
\* with that swath, the one its slant range correction and projection use.
C18_BlindZoneUsesCapturedAltitude ==
    [][ pc = "process" =>
          LET sw == heap[buffer_unprocessed_swaths[1]]
          IN  buffer_processed_coordinate_array'[BufferLen + 1] =
                  pose_correction(Conditioned(sw, sw.altitude)) ]_vars

\* C20: the window never holds more than 100 arrays, and once a build has
\* completed it never holds fewer than 50.
C20_WindowBetween50And100 ==
    /\ BufferLen <= 100
    /\ Len(builds) >= 1 => BufferLen >= 50

C20_Witness == Len(builds) = 1 /\ BufferLen = 100 /\ pc = "idle" /\ QueueLen = 0

\* C19: in a run in which no build fails, whenever swaths are waiting the
\* queue is empty again later (the sonar frames of a run end: there are at
\* most MaxFrames of them).
C19_QueueDrains ==
    ([](failures = 0)) => ((QueueLen > 0) ~> (QueueLen = 0))

C19_Witness ==
    /\ sonar_seq = MaxFrames
    /\ failures = 0
    /\ accepted > 100
    /\ QueueLen = 0
    /\ pc = "idle"
    /\ BufferLen + 50 * Len(builds) = accepted

====
